---------------------------- MODULE Spec2Model ----------------------------
(***************************************************************************)
(* State-machine model of OllamaAgentLoop (codex-cli/src/utils/agent/      *)
(* ollama-agent-loop.ts) and of the message conversion of ollama-client.ts.*)
(*                                                                         *)
(* A run() invocation is a sequence of steps separated by its awaits: the  *)
(* synchronous prefix up to the backend request, the continuation after    *)
(* the backend settles, and the continuation after each awaited            *)
(* handleFunctionCall.  cancel(), terminate() and clearConversationHistory *)
(* are synchronous and may be called between any two steps.                *)
(***************************************************************************)
EXTENDS Integers, Sequences, FiniteSets, TLC

VARIABLES
  generation,            \* this.generation
  canceled,              \* this.canceled
  terminated,            \* this.terminated
  hardAborted,           \* this.hardAbort.signal.aborted
  execAbortController,   \* this.execAbortController: 0 is null, else a controller id
  nextCtl,               \* number of AbortControllers created so far (ids 1..nextCtl)
  aborted,               \* ids of the controllers whose signal is aborted
  conversationHistory,   \* this.conversationHistory
  sessionId,             \* this.sessionId (a fresh token per randomUUID())
  instructions,          \* this.instructions: TRUE when configured
  runs,                  \* one record per run() invocation, in call order
  loading,               \* last value passed to onLoading
  onLoadingCalls,        \* number of onLoading invocations so far
  OLLAMA_ENABLED,        \* config.js: Ollama integration is switched on
  OPENAI_API_KEY,        \* config.js: TRUE when an API key is set
  modelsPromise,         \* model-utils.ts: 0 is null, else a promise id
  promises,              \* the promises fetchModels() returned, by id
  callers                \* one record per call into model-utils.ts

loopVars == <<generation, canceled, terminated, hardAborted, execAbortController,
              nextCtl, aborted, conversationHistory, sessionId, instructions,
              runs, loading, onLoadingCalls>>

modelUtilsVars == <<OLLAMA_ENABLED, OPENAI_API_KEY, modelsPromise, promises,
                    callers>>

vars == <<generation, canceled, terminated, hardAborted, execAbortController,
          nextCtl, aborted, conversationHistory, sessionId, instructions, runs,
          loading, onLoadingCalls, OLLAMA_ENABLED, OPENAI_API_KEY,
          modelsPromise, promises, callers>>

-----------------------------------------------------------------------------
(* Bounds of the model *)

MaxRuns == 2
MaxControllers == 3
MaxSessions == 1
MaxTurns == 5
MaxInputLen == 5

MaxCalls == 2

MaxTextLen == 3
MaxParseTurns == 1

MaxModelCalls == 3

(* Program constant *)
MAX_HISTORY_LENGTH == 20

-----------------------------------------------------------------------------
(* Input items, messages and backend replies *)

Min(a, b) == IF a < b THEN a ELSE b
Max(a, b) == IF a > b THEN a ELSE b

\* An OllamaMessage; the content is identified by the run that produced it and
\* its position in that run's input (position 0 is the backend's reply).
Msg(role, r, i) == [role |-> role, src |-> r, pos |-> i]

\* A ResponseInputItem of the i-th position of run r's input.  kind is one of
\*   "user" "assistant" "system"  a message item of that role with text
\*   "emptyuser"                  a user message item whose text is ""
\*   "fco"                        a function_call_output item
InputItem(kind, r, i) ==
  CASE kind = "fco" -> [type |-> "function_call_output", role |-> "none",
                        empty |-> FALSE, src |-> r, pos |-> i]
    [] kind = "emptyuser" -> [type |-> "message", role |-> "user",
                              empty |-> TRUE, src |-> r, pos |-> i]
    [] OTHER -> [type |-> "message", role |-> kind,
                 empty |-> FALSE, src |-> r, pos |-> i]

MkInput(kinds, r) == [i \in 1..Len(kinds) |-> InputItem(kinds[i], r, i)]

\* convertResponseItemsToOllamaMessages: message items with non-empty text keep
\* their role, function_call_output items become system messages, anything
\* else is dropped.
RECURSIVE convertResponseItemsToOllamaMessages(_)
convertResponseItemsToOllamaMessages(items) ==
  IF items = <<>> THEN <<>>
  ELSE LET item == Head(items)
           rest == convertResponseItemsToOllamaMessages(Tail(items))
       IN IF item.type = "message"
          THEN IF ~item.empty
               THEN <<Msg(item.role, item.src, item.pos)>> \o rest
               ELSE rest
          ELSE IF item.type = "function_call_output"
               THEN <<Msg("system", item.src, item.pos)>> \o rest
               ELSE rest

\* Array.prototype.slice(start) of JavaScript (note that slice(-0) is slice(0)).
Slice(s, start) ==
  LET n == Len(s)
      b == IF start < 0 THEN Max(n + start, 0) ELSE Min(start, n)
  IN SubSeq(s, b + 1, n)

IsSystem(m) == m.role = "system"
NotSystem(m) == m.role # "system"

\* Mutant of updateConversationHistory: the trim keeps the most recent
\* messages of the whole history, whatever their role.
updateConversationHistoryTrimAll(history, newMessages, message) ==
  LET pushed == history \o newMessages \o <<message>>
  IN IF Len(pushed) > MAX_HISTORY_LENGTH
     THEN Slice(pushed, 0 - MAX_HISTORY_LENGTH)
     ELSE pushed

\* Mutant of updateConversationHistory: the system prompt of the request is
\* stored with the turn.
updateConversationHistoryWithInstructions(history, newMessages, message) ==
  LET pushed == <<Msg("system", 0, 0)>> \o history \o newMessages \o <<message>>
      systemMessages == SelectSeq(pushed, IsSystem)
      nonSystemMessages == SelectSeq(pushed, NotSystem)
      recentMessages ==
        Slice(nonSystemMessages, (0 - MAX_HISTORY_LENGTH) + Len(systemMessages))
  IN IF Len(pushed) > MAX_HISTORY_LENGTH
     THEN systemMessages \o recentMessages
     ELSE pushed

\* Mutant of updateConversationHistory: only the reply is pushed.
updateConversationHistoryReplyOnly(history, newMessages, message) ==
  LET pushed == history \o <<message>>
      systemMessages == SelectSeq(pushed, IsSystem)
      nonSystemMessages == SelectSeq(pushed, NotSystem)
      recentMessages ==
        Slice(nonSystemMessages, (0 - MAX_HISTORY_LENGTH) + Len(systemMessages))
  IN IF Len(pushed) > MAX_HISTORY_LENGTH
     THEN systemMessages \o recentMessages
     ELSE pushed

\* Mutant of updateConversationHistory: the trim keeps MAX_HISTORY_LENGTH
\* non-system messages, whatever the number of system messages.
updateConversationHistoryKeepCap(history, newMessages, message) ==
  LET pushed == history \o newMessages \o <<message>>
      systemMessages == SelectSeq(pushed, IsSystem)
      nonSystemMessages == SelectSeq(pushed, NotSystem)
      recentMessages == Slice(nonSystemMessages, 0 - MAX_HISTORY_LENGTH)
  IN IF Len(pushed) > MAX_HISTORY_LENGTH
     THEN systemMessages \o recentMessages
     ELSE pushed

\* Mutant of updateConversationHistory: the reply is pushed before the run's
\* input messages.
updateConversationHistoryReplyFirst(history, newMessages, message) ==
  LET pushed == history \o <<message>> \o newMessages
      systemMessages == SelectSeq(pushed, IsSystem)
      nonSystemMessages == SelectSeq(pushed, NotSystem)
      recentMessages ==
        Slice(nonSystemMessages, (0 - MAX_HISTORY_LENGTH) + Len(systemMessages))
  IN IF Len(pushed) > MAX_HISTORY_LENGTH
     THEN systemMessages \o recentMessages
     ELSE pushed

\* updateConversationHistory: push the new messages and the reply, then trim.
updateConversationHistory(history, newMessages, message) ==
  LET pushed == history \o newMessages \o <<message>>
      systemMessages == SelectSeq(pushed, IsSystem)
      nonSystemMessages == SelectSeq(pushed, NotSystem)
      recentMessages ==
        Slice(nonSystemMessages, (0 - MAX_HISTORY_LENGTH) + Len(systemMessages))
  IN IF Len(pushed) > MAX_HISTORY_LENGTH
     THEN systemMessages \o recentMessages
     ELSE pushed

-----------------------------------------------------------------------------
(* Response text.  The text of a backend reply is a sequence of segments:   *)
(*   "text"        prose without any fence or tag                           *)
(*   "think"       a <think>...</think> block with non-blank content        *)
(*   "shell"       a ```bash / ```sh fence holding a command                *)
(*   "emptyshell"  a ```bash / ```sh fence holding only white space         *)
(*   "jsoncmd"     ```json {"cmd":["ls","-la"]} ```                         *)
(*   "patch"       ```json {"cmd":["apply_patch","<patch>"]} ``` whose      *)
(*                 patch text holds no double quote                         *)
(*   "patchq"      the same with a patch text that holds escaped quotes     *)

RECURSIVE RemoveFirst(_, _)
RemoveFirst(s, tok) ==
  IF s = <<>> THEN <<>>
  ELSE IF Head(s) = tok THEN Tail(s)
  ELSE <<Head(s)>> \o RemoveFirst(Tail(s), tok)

Contains(s, tok) == \E i \in 1..Len(s) : s[i] = tok

\* extractThinkingContent: the first <think> block is cut out of the content.
extractThinkingContent(content) ==
  IF Contains(content, "think")
  THEN [thinkingContent |-> TRUE, cleanedContent |-> RemoveFirst(content, "think")]
  ELSE [thinkingContent |-> FALSE, cleanedContent |-> content]

\* A ResponseFunctionToolCall; arguments is "json_command" ({"command": [...]}),
\* "json_patch" ({"patch": ...}) or "raw" (text that is not JSON).
Call(id, name, arguments) == [id |-> id, name |-> name, arguments |-> arguments]

\* An output item as it reaches onItem; gen is this.generation at that moment.
Item(type, role, id, name, arguments, out, gen) ==
  [type |-> type, role |-> role, id |-> id, name |-> name,
   arguments |-> arguments, out |-> out, gen |-> gen]
MessageItem(role, id, out, gen) == Item("message", role, id, "none", "none", out, gen)
ReasoningItem(id, gen) == Item("reasoning", "none", id, "none", "none", "", gen)
CallItem(call, gen) ==
  Item("function_call", "none", call.id, call.name, call.arguments, "", gen)
OutputItem(id, out, gen) ==
  Item("function_call_output", "none", id, "none", "none", out, gen)

IsJsonCmd(tok) == tok \in {"jsoncmd", "patch"}
IsShellFence(tok) == tok = "shell"
IsPatchFence(tok) == tok \in {"patch", "patchq"}

\* Mutant of convertOllamaResponseToResponseItem: the json "cmd" pattern is
\* never looked for, every response becomes a message item.
convertNeverStructured(content, r, gen) ==
  LET ex == extractThinkingContent(content)
      reasoning == IF ex.thinkingContent
                   THEN <<ReasoningItem(<<r, 0>>, gen)>>
                   ELSE <<>>
  IN [items |-> reasoning \o <<MessageItem("assistant", <<r, 0>>, "", gen)>>,
      text |-> ex.cleanedContent]

\* convertOllamaResponseToResponseItem: an optional reasoning item, then either
\* a function_call item (the json "cmd" pattern matched; its name is the first
\* element of cmd and its arguments the raw second element) or a message item.
convertOllamaResponseToResponseItem(content, r, gen) ==
  LET ex == extractThinkingContent(content)
      cleaned == ex.cleanedContent
      matches == SelectSeq(cleaned, IsJsonCmd)
      reasoning == IF ex.thinkingContent
                   THEN <<ReasoningItem(<<r, 0>>, gen)>>
                   ELSE <<>>
      main == IF matches # <<>>
              THEN CallItem(Call(<<r, 0>>,
                                 IF Head(matches) = "jsoncmd" THEN "ls"
                                                              ELSE "apply_patch",
                                 "raw"), gen)
              ELSE MessageItem("assistant", <<r, 0>>, "", gen)
  IN [items |-> reasoning \o <<main>>, text |-> cleaned]

\* parseFunctionCalls: every non-blank shell fence, in text order, and after
\* them every apply_patch fence, in text order.
parseFunctionCalls(text, r) ==
  LET shells == SelectSeq(text, IsShellFence)
      patches == SelectSeq(text, IsPatchFence)
      n == Len(shells)
  IN [k \in 1..n |-> Call(<<r, k>>, "shell", "json_command")]
     \o [k \in 1..Len(patches) |-> Call(<<r, n + k>>, "apply_patch", "json_patch")]

\* parseToolCallArguments (parsers.ts): the payload must be JSON holding a
\* command array.
parseToolCallArguments(arguments) == arguments = "json_command"

\* Mutant of handleFunctionCall: the canceled flag is not consulted.
handleFunctionCallIgnoreCanceled(call, isCanceled) ==
  IF ~parseToolCallArguments(call.arguments) THEN "invalid"
  ELSE IF call.name \in {"container.exec", "shell"} THEN "exec"
  ELSE "nofunc"

\* handleFunctionCall up to its first await: what the call resolves to.
\*   "empty"    the loop is canceled: []
\*   "invalid"  one result, "invalid arguments: ..."
\*   "exec"     handleExecCommand is awaited with the current signal
\*   "nofunc"   one result, "no function found"
handleFunctionCall(call, isCanceled) ==
  IF isCanceled THEN "empty"
  ELSE IF ~parseToolCallArguments(call.arguments) THEN "invalid"
  ELSE IF call.name \in {"container.exec", "shell"} THEN "exec"
  ELSE "nofunc"

\* What handleExecCommand (handle-exec-command.ts) may resolve to: the command
\* ran, or the user denied it.
ExecOutcomes == {"ok", "denied"}

\* The additionalItems of handleExecCommand: a denial adds a message item for
\* the model.
AdditionalItems(out, gen) ==
  IF out = "denied" THEN <<MessageItem("user", <<0, 0>>, "note", gen)>> ELSE <<>>

\* Mutant of ResultItems: the follow-up item of a denied command is sent as a
\* second function_call_output of the same call.
ResultItemsTwice(kind, call, out, gen) ==
  IF kind = "empty" THEN <<>>
  ELSE <<OutputItem(call.id, out, gen)>>
       \o (IF out = "denied" THEN <<OutputItem(call.id, "note", gen)>> ELSE <<>>)

\* Mutant of ResultItems: an unknown tool name yields no result.
ResultItemsNoFuncSilent(kind, call, out, gen) ==
  CASE kind = "empty" -> <<>>
    [] kind = "invalid" -> <<OutputItem(call.id, "invalid arguments", gen)>>
    [] kind = "nofunc" -> <<>>
    [] OTHER -> <<OutputItem(call.id, out, gen)>> \o AdditionalItems(out, gen)

\* Mutant of ResultItems: unparseable arguments are reported as an error
\* message instead of a function_call_output.
ResultItemsInvalidAsError(kind, call, out, gen) ==
  CASE kind = "empty" -> <<>>
    [] kind = "invalid" -> <<MessageItem("system", <<0, 0>>, "invalid arguments", gen)>>
    [] kind = "nofunc" -> <<OutputItem(call.id, "no function found", gen)>>
    [] OTHER -> <<OutputItem(call.id, out, gen)>> \o AdditionalItems(out, gen)

\* The items handleFunctionCall returns once it has resolved.
ResultItems(kind, call, out, gen) ==
  CASE kind = "empty" -> <<>>
    [] kind = "invalid" -> <<OutputItem(call.id, "invalid arguments", gen)>>
    [] kind = "nofunc" -> <<OutputItem(call.id, "no function found", gen)>>
    [] OTHER -> <<OutputItem(call.id, out, gen)>> \o AdditionalItems(out, gen)

-----------------------------------------------------------------------------
(* The environment: what the host passes to run() and what the backend     *)
(* answers.                                                                *)

\* Inputs of run() in the interleaving specification.
Inputs == {<<"user", "emptyuser", "fco">>}

\* Texts the backend answers with in the interleaving specification.
ReplyTexts ==
  {<<"text">>, <<"think", "text">>, <<"text", "shell">>, <<"shell", "shell">>,
   <<"jsoncmd">>}

Replies == {[role |-> "assistant", content |-> c] : c \in ReplyTexts}

\* Inputs and replies of the sequential specification of whole turns.
Repeat(kind, n) == [i \in 1..n |-> kind]

SeqInputs ==
  {<<"user">>, <<"system", "user">>,
   Repeat("user", MaxInputLen), Repeat("fco", MaxInputLen)}

SeqReplies ==
  {[role |-> ro, content |-> <<"text">>] : ro \in {"assistant", "system"}}

-----------------------------------------------------------------------------
(* State of one run() invocation.                                          *)
(*   pc             "awaitBackend", "awaitTool" or "done"                  *)
(*   thisGeneration the value captured at line 472 (0: never captured)     *)
(*   rejected       the loop was terminated on entry                       *)
(*   input          the input items                                        *)
(*   newMessages    convertResponseItemsToOllamaMessages(input)            *)
(*   request        the message list handed to ollamaChatCompletion        *)
(*   replyRole      role of response.message ("none" before the reply)     *)
(*   mode           "free": calls parsed from the text, "structured": the  *)
(*                  response item is a function_call, "none" otherwise     *)
(*   calls          function calls not yet processed, the current first    *)
(*   toolKind       what the awaited handleFunctionCall resolves to        *)
(*   signal         controller whose signal the awaited exec holds (0: none)*)
(*   items          what this invocation passed to onItem, in order        *)
(*   loads          what this invocation passed to onLoading, in order     *)
(*   dispatches     calls handed to handleExecCommand: id, signal, and     *)
(*                  whether the signal was aborted at that moment          *)
(*   outcome        "pending", "resolved" or "rejected" (the promise)      *)
(*   exit           "none", "success", "error", "canceled", "terminated"   *)
(*   notified       onLastResponseId was called                            *)
(*   content        response.message.content (<<>> before the reply)       *)
(*   session        this.sessionId when run() was entered                  *)

InstructionsMsg == Msg("system", 0, 0)

IsUserEcho(item) == item.type = "message" /\ item.role = "user"

UserEchoes(input, gen) ==
  LET echoed == SelectSeq(input, IsUserEcho)
  IN [i \in 1..Len(echoed) |->
        MessageItem("user", <<echoed[i].src, echoed[i].pos>>, "", gen)]

ErrorItem(out, gen) == MessageItem("system", <<0, 0>>, out, gen)

Init ==
  /\ generation = 0
  /\ canceled = FALSE
  /\ terminated = FALSE
  /\ hardAborted = FALSE
  /\ execAbortController = 0
  /\ nextCtl = 0
  /\ aborted = {}
  /\ conversationHistory = <<>>
  /\ sessionId = 0
  /\ instructions \in BOOLEAN
  /\ runs = <<>>
  /\ loading = FALSE
  /\ onLoadingCalls = 0
  /\ OLLAMA_ENABLED = TRUE
  /\ OPENAI_API_KEY = FALSE
  /\ modelsPromise = 0
  /\ promises = <<>>
  /\ callers = <<>>

\* Mutant of RunStart: the generation is advanced before the terminated flag
\* is looked at.
RunStartBumpsWhenTerminated(kinds, maxRuns) ==
  /\ UNCHANGED modelUtilsVars
  /\ Len(runs) < maxRuns
  /\ LET r == Len(runs) + 1
         input == MkInput(kinds, r)
         newMessages == convertResponseItemsToOllamaMessages(input)
         base == [pc |-> "done", thisGeneration |-> 0, rejected |-> TRUE,
                  input |-> input, newMessages |-> <<>>, request |-> <<>>,
                  replyRole |-> "none", mode |-> "none", calls |-> <<>>,
                  toolKind |-> "none", signal |-> 0,
                  items |-> <<ErrorItem("unhandled", generation)>>,
                  loads |-> <<FALSE>>, dispatches |-> <<>>,
                  outcome |-> "resolved", exit |-> "terminated",
                  notified |-> FALSE, content |-> <<>>,
                  session |-> sessionId]
     IN IF terminated
        THEN /\ runs' = Append(runs, base)
             /\ loading' = FALSE
             /\ onLoadingCalls' = onLoadingCalls + 1
             /\ generation' = generation + 1
             /\ UNCHANGED <<canceled, execAbortController, nextCtl>>
        ELSE /\ generation' = generation + 1
             /\ canceled' = FALSE
             /\ nextCtl' = nextCtl + 1
             /\ execAbortController' = nextCtl + 1
             /\ runs' = Append(runs,
                  [base EXCEPT !.pc = "awaitBackend",
                               !.thisGeneration = generation + 1,
                               !.rejected = FALSE,
                               !.newMessages = newMessages,
                               !.request =
                                  (IF instructions THEN <<InstructionsMsg>> ELSE <<>>)
                                  \o conversationHistory \o newMessages,
                               !.items = UserEchoes(input, generation + 1),
                               !.loads = <<TRUE>>,
                               !.outcome = "pending",
                               !.exit = "none"])
             /\ loading' = TRUE
             /\ onLoadingCalls' = onLoadingCalls + 1
  /\ UNCHANGED <<terminated, hardAborted, aborted, conversationHistory,
                 sessionId, instructions>>

\* run(), lines 458-517: from entry to the backend request.  On a terminated
\* loop the error thrown at line 464 is caught by the outer catch (612-627):
\* onLoading(false), one error item, and the promise resolves.
RunStart(kinds, maxRuns) ==
  /\ UNCHANGED modelUtilsVars
  /\ Len(runs) < maxRuns
  /\ LET r == Len(runs) + 1
         input == MkInput(kinds, r)
         newMessages == convertResponseItemsToOllamaMessages(input)
         base == [pc |-> "done", thisGeneration |-> 0, rejected |-> TRUE,
                  input |-> input, newMessages |-> <<>>, request |-> <<>>,
                  replyRole |-> "none", mode |-> "none", calls |-> <<>>,
                  toolKind |-> "none", signal |-> 0,
                  items |-> <<ErrorItem("unhandled", generation)>>,
                  loads |-> <<FALSE>>, dispatches |-> <<>>,
                  outcome |-> "resolved", exit |-> "terminated",
                  notified |-> FALSE, content |-> <<>>,
                  session |-> sessionId]
     IN IF terminated
        THEN /\ runs' = Append(runs, base)
             /\ loading' = FALSE
             /\ onLoadingCalls' = onLoadingCalls + 1
             /\ UNCHANGED <<generation, canceled, execAbortController, nextCtl>>
        ELSE /\ generation' = generation + 1
             /\ canceled' = FALSE
             /\ nextCtl' = nextCtl + 1
             /\ execAbortController' = nextCtl + 1
             /\ runs' = Append(runs,
                  [base EXCEPT !.pc = "awaitBackend",
                               !.thisGeneration = generation + 1,
                               !.rejected = FALSE,
                               !.newMessages = newMessages,
                               !.request =
                                  (IF instructions THEN <<InstructionsMsg>> ELSE <<>>)
                                  \o conversationHistory \o newMessages,
                               !.items = UserEchoes(input, generation + 1),
                               !.loads = <<TRUE>>,
                               !.outcome = "pending",
                               !.exit = "none"])
             /\ loading' = TRUE
             /\ onLoadingCalls' = onLoadingCalls + 1
  /\ UNCHANGED <<terminated, hardAborted, aborted, conversationHistory,
                 sessionId, instructions>>

\* Mutant of Leave: the finally block does not call onLoading(false).
LeaveNoFinally(run, early, exit) ==
  [run EXCEPT !.pc = "done", !.loads = @ \o early,
              !.outcome = "resolved", !.exit = exit, !.toolKind = "none",
              !.signal = 0]

\* A run leaves through its finally block (line 610) after the onLoading calls
\* `early` of the path it took.
Leave(run, early, exit) ==
  [run EXCEPT !.pc = "done", !.loads = @ \o early \o <<FALSE>>,
              !.outcome = "resolved", !.exit = exit, !.toolKind = "none",
              !.signal = 0]

\* Mutant of CatchBackendError: the error is rethrown instead of reported.
CatchBackendErrorRethrow(run, gen) ==
  [Leave(run, <<>>, "error") EXCEPT !.outcome = "rejected"]

\* The inner catch and finally of run(), lines 594-611.
CatchBackendError(run, gen) ==
  Leave([run EXCEPT !.items = Append(@, ErrorItem("backend", gen))], <<>>, "error")

\* run(), lines 517 and 594-611: the backend request failed.
BackendFail(r) ==
  /\ UNCHANGED modelUtilsVars
  /\ r \in 1..Len(runs)
  /\ runs[r].pc = "awaitBackend"
  /\ runs' = [runs EXCEPT ![r] = CatchBackendError(runs[r], generation)]
  /\ loading' = FALSE
  /\ onLoadingCalls' = onLoadingCalls + 1
  /\ UNCHANGED <<generation, canceled, terminated, hardAborted,
                 execAbortController, nextCtl, aborted, conversationHistory,
                 sessionId, instructions>>

\* Mutant of Dispatch: the function_call item is never emitted.
DispatchNoEmit(run, call, emitIt) ==
  LET kind == handleFunctionCall(call, canceled)
      sig == IF kind = "exec" THEN execAbortController ELSE 0
  IN [run EXCEPT
        !.pc = "awaitTool",
        !.toolKind = kind,
        !.signal = sig,
        !.dispatches = IF kind = "exec"
                       THEN Append(@, [id |-> call.id, signal |-> sig,
                                       preAborted |-> sig \in aborted])
                       ELSE @]

\* The call handed to handleFunctionCall; emitIt: the function_call item is
\* emitted first (line 565).  The synchronous part of handleFunctionCall runs
\* here, and the run then awaits it.
Dispatch(run, call, emitIt) ==
  LET kind == handleFunctionCall(call, canceled)
      sig == IF kind = "exec" THEN execAbortController ELSE 0
  IN [run EXCEPT
        !.pc = "awaitTool",
        !.toolKind = kind,
        !.signal = sig,
        !.items = IF emitIt THEN Append(@, CallItem(call, generation)) ELSE @,
        !.dispatches = IF kind = "exec"
                       THEN Append(@, [id |-> call.id, signal |-> sig,
                                       preAborted |-> sig \in aborted])
                       ELSE @]

\* run(), lines 587-592 and 610: the turn completed.
Finish(run, r) ==
  [Leave(run, <<>>, "success") EXCEPT !.notified = TRUE]

\* Mutant of Proceed: the checkpoint of lines 559-562 is missing.
ProceedNoCheckpoint(r, run) ==
  IF run.mode = "free" /\ run.calls # <<>>
  THEN /\ runs' = [runs EXCEPT ![r] = Dispatch(run, Head(run.calls), TRUE)]
       /\ UNCHANGED <<loading, onLoadingCalls, conversationHistory>>
  ELSE /\ runs' = [runs EXCEPT ![r] = Finish(run, r)]
       /\ conversationHistory' =
            updateConversationHistory(conversationHistory, run.newMessages,
                                      Msg(run.replyRole, r, 0))
       /\ loading' = FALSE
       /\ onLoadingCalls' = onLoadingCalls + 1

\* run(), lines 558-592: the loop over the parsed function calls, from the
\* checkpoint of line 559 up to the next await or the end of the turn.
Proceed(r, run) ==
  IF run.mode = "free" /\ run.calls # <<>>
  THEN IF canceled \/ hardAborted
       THEN /\ runs' = [runs EXCEPT ![r] = Leave(run, <<FALSE>>, "canceled")]
            /\ loading' = FALSE
            /\ onLoadingCalls' = onLoadingCalls + 2
            /\ UNCHANGED conversationHistory
       ELSE /\ runs' = [runs EXCEPT ![r] = Dispatch(run, Head(run.calls), TRUE)]
            /\ UNCHANGED <<loading, onLoadingCalls, conversationHistory>>
  ELSE /\ runs' = [runs EXCEPT ![r] = Finish(run, r)]
       /\ conversationHistory' =
            updateConversationHistory(conversationHistory, run.newMessages,
                                      Msg(run.replyRole, r, 0))
       /\ loading' = FALSE
       /\ onLoadingCalls' = onLoadingCalls + 1

\* Mutant of BackendReply: the checkpoint after the backend request (lines
\* 519-522) is missing.
BackendReplyNoCheckpoint(r, reply) ==
  /\ UNCHANGED modelUtilsVars
  /\ r \in 1..Len(runs)
  /\ runs[r].pc = "awaitBackend"
  /\ LET conv == convertOllamaResponseToResponseItem(reply.content, r, generation)
         main == conv.items[Len(conv.items)]
         run1 == [runs[r] EXCEPT !.items = @ \o conv.items,
                                 !.replyRole = reply.role,
                                 !.content = reply.content]
     IN IF main.type = "message"
        THEN Proceed(r, [run1 EXCEPT !.mode = "free",
                                     !.calls = parseFunctionCalls(conv.text, r)])
        ELSE /\ runs' = [runs EXCEPT ![r] =
                  Dispatch([run1 EXCEPT
                              !.mode = "structured",
                              !.calls = <<Call(main.id, main.name, main.arguments)>>],
                           Call(main.id, main.name, main.arguments), FALSE)]
             /\ UNCHANGED <<loading, onLoadingCalls, conversationHistory>>
  /\ UNCHANGED <<generation, canceled, terminated, hardAborted,
                 execAbortController, nextCtl, aborted, sessionId, instructions>>

\* run(), lines 517-585: the backend answered.
BackendReply(r, reply) ==
  /\ UNCHANGED modelUtilsVars
  /\ r \in 1..Len(runs)
  /\ runs[r].pc = "awaitBackend"
  /\ IF canceled \/ hardAborted
     THEN /\ runs' = [runs EXCEPT ![r] = Leave(runs[r], <<FALSE>>, "canceled")]
          /\ loading' = FALSE
          /\ onLoadingCalls' = onLoadingCalls + 2
          /\ UNCHANGED conversationHistory
     ELSE LET conv == convertOllamaResponseToResponseItem(reply.content, r, generation)
              main == conv.items[Len(conv.items)]
              run1 == [runs[r] EXCEPT !.items = @ \o conv.items,
                                      !.replyRole = reply.role,
                                      !.content = reply.content]
          IN IF main.type = "message"
             THEN Proceed(r, [run1 EXCEPT !.mode = "free",
                                          !.calls = parseFunctionCalls(conv.text, r)])
             ELSE /\ runs' = [runs EXCEPT ![r] =
                       Dispatch([run1 EXCEPT
                                   !.mode = "structured",
                                   !.calls = <<Call(main.id, main.name, main.arguments)>>],
                                Call(main.id, main.name, main.arguments), FALSE)]
                  /\ UNCHANGED <<loading, onLoadingCalls, conversationHistory>>
  /\ UNCHANGED <<generation, canceled, terminated, hardAborted,
                 execAbortController, nextCtl, aborted, sessionId, instructions>>

\* run(), lines 568-585: the awaited handleFunctionCall resolved; its items are
\* emitted and the loop goes on.
ToolReturn(r, out) ==
  /\ UNCHANGED modelUtilsVars
  /\ r \in 1..Len(runs)
  /\ runs[r].pc = "awaitTool"
  /\ runs[r].toolKind = "exec" \/ out = "ok"
  /\ LET run == runs[r]
         result == ResultItems(run.toolKind, Head(run.calls), out, generation)
     IN Proceed(r, [run EXCEPT !.items = @ \o result, !.calls = Tail(@),
                               !.toolKind = "none", !.signal = 0])
  /\ UNCHANGED <<generation, canceled, terminated, hardAborted,
                 execAbortController, nextCtl, aborted, sessionId, instructions>>

-----------------------------------------------------------------------------
(* cancel(), terminate() and clearConversationHistory().  cancel and       *)
(* terminate are functions of the loop's fields, so that terminate can     *)
(* call cancel as the code does.                                           *)

LoopState ==
  [generation |-> generation, canceled |-> canceled, terminated |-> terminated,
   hardAborted |-> hardAborted, execAbortController |-> execAbortController,
   nextCtl |-> nextCtl, aborted |-> aborted, loading |-> loading,
   onLoadingCalls |-> onLoadingCalls]

\* AbortController.abort() of controller c (null when c = 0).
Abort(abortedSet, c) == IF c = 0 THEN abortedSet ELSE abortedSet \cup {c}

\* Mutant of cancel: the aborted controller is kept instead of replaced.
cancelKeepController(st) ==
  IF st.terminated THEN st
  ELSE [st EXCEPT !.canceled = TRUE,
                  !.aborted = Abort(@, st.execAbortController),
                  !.nextCtl = @ + 1,
                  !.loading = FALSE,
                  !.onLoadingCalls = @ + 1,
                  !.generation = @ + 1]

\* Mutant of cancel: the generation token is not incremented.
cancelNoBump(st) ==
  IF st.terminated THEN st
  ELSE [st EXCEPT !.canceled = TRUE,
                  !.aborted = Abort(@, st.execAbortController),
                  !.execAbortController = st.nextCtl + 1,
                  !.nextCtl = @ + 1,
                  !.loading = FALSE,
                  !.onLoadingCalls = @ + 1]

\* Mutant of cancel: a second cancel() in a row does nothing.
cancelOnce(st) ==
  IF st.terminated \/ st.canceled THEN st
  ELSE [st EXCEPT !.canceled = TRUE,
                  !.aborted = Abort(@, st.execAbortController),
                  !.execAbortController = st.nextCtl + 1,
                  !.nextCtl = @ + 1,
                  !.loading = FALSE,
                  !.onLoadingCalls = @ + 1,
                  !.generation = @ + 1]

\* Mutant of cancel: the terminated flag is not consulted.
cancelWhenTerminated(st) ==
  [st EXCEPT !.canceled = TRUE,
             !.aborted = Abort(@, st.execAbortController),
             !.execAbortController = st.nextCtl + 1,
             !.nextCtl = @ + 1,
             !.loading = FALSE,
             !.onLoadingCalls = @ + 1,
             !.generation = @ + 1]

\* cancel(), lines 109-143.
cancel(st) ==
  IF st.terminated THEN st
  ELSE [st EXCEPT !.canceled = TRUE,
                  !.aborted = Abort(@, st.execAbortController),
                  !.execAbortController = st.nextCtl + 1,
                  !.nextCtl = @ + 1,
                  !.loading = FALSE,
                  !.onLoadingCalls = @ + 1,
                  !.generation = @ + 1]

\* hardAbort.abort(): the listener registered by the constructor (lines
\* 202-206) aborts the current execAbortController.
hardAbort(st) ==
  [st EXCEPT !.hardAborted = TRUE,
             !.aborted = IF st.hardAborted THEN @ ELSE Abort(@, st.execAbortController)]

\* Mutant of terminate: a repeated terminate() reports loading=false again.
terminateNotifies(st) ==
  IF st.terminated
  THEN [st EXCEPT !.loading = FALSE, !.onLoadingCalls = @ + 1]
  ELSE cancel(hardAbort([st EXCEPT !.terminated = TRUE]))

\* terminate(), lines 150-159.
terminate(st) ==
  IF st.terminated THEN st
  ELSE cancel(hardAbort([st EXCEPT !.terminated = TRUE]))

SetLoopState(st) ==
  /\ generation' = st.generation
  /\ canceled' = st.canceled
  /\ terminated' = st.terminated
  /\ hardAborted' = st.hardAborted
  /\ execAbortController' = st.execAbortController
  /\ nextCtl' = st.nextCtl
  /\ aborted' = st.aborted
  /\ loading' = st.loading
  /\ onLoadingCalls' = st.onLoadingCalls

\* The host calls cancel(); each effective call creates a controller, which
\* bounds the number of calls.
Cancel ==
  /\ UNCHANGED modelUtilsVars
  /\ nextCtl < MaxControllers
  /\ SetLoopState(cancel(LoopState))
  /\ UNCHANGED <<conversationHistory, sessionId, instructions, runs>>

\* The host calls terminate().
Terminate ==
  /\ UNCHANGED modelUtilsVars
  /\ SetLoopState(terminate(LoopState))
  /\ UNCHANGED <<conversationHistory, sessionId, instructions, runs>>

\* Mutant of ClearConversationHistory: the reset also revives a terminated loop.
ClearConversationHistoryRevives ==
  /\ UNCHANGED modelUtilsVars
  /\ sessionId < MaxSessions
  /\ conversationHistory' = <<>>
  /\ generation' = 0
  /\ sessionId' = sessionId + 1
  /\ terminated' = FALSE
  /\ UNCHANGED <<canceled, hardAborted, execAbortController,
                 nextCtl, aborted, instructions, runs, loading, onLoadingCalls>>

\* Mutant of ClearConversationHistory: the generation token is kept.
ClearConversationHistoryKeepGeneration ==
  /\ UNCHANGED modelUtilsVars
  /\ sessionId < MaxSessions
  /\ conversationHistory' = <<>>
  /\ sessionId' = sessionId + 1
  /\ UNCHANGED <<generation, canceled, terminated, hardAborted, execAbortController,
                 nextCtl, aborted, instructions, runs, loading, onLoadingCalls>>

\* clearConversationHistory(), lines 643-657.
ClearConversationHistory ==
  /\ UNCHANGED modelUtilsVars
  /\ sessionId < MaxSessions
  /\ conversationHistory' = <<>>
  /\ generation' = 0
  /\ sessionId' = sessionId + 1
  /\ UNCHANGED <<canceled, terminated, hardAborted, execAbortController,
                 nextCtl, aborted, instructions, runs, loading, onLoadingCalls>>

-----------------------------------------------------------------------------
(* Specifications *)

\* Every interleaving of the host's calls with the completions of the awaits.
Next ==
  \/ \E kinds \in Inputs : RunStart(kinds, MaxRuns)
  \/ \E r \in 1..MaxRuns : BackendFail(r)
  \/ \E r \in 1..MaxRuns, reply \in Replies : BackendReply(r, reply)
  \/ \E r \in 1..MaxRuns, out \in ExecOutcomes : ToolReturn(r, out)
  \/ Cancel
  \/ Terminate
  \/ ClearConversationHistory

Spec == Init /\ [][Next]_vars

\* Whole turns one after the other, as a host that awaits each run() makes
\* them: the next run() starts when the previous one has resolved.
AllDone == \A r \in 1..Len(runs) : runs[r].pc = "done"

TurnNext ==
  \/ \E kinds \in SeqInputs : AllDone /\ RunStart(kinds, MaxTurns)
  \/ \E r \in 1..MaxTurns, reply \in SeqReplies : BackendReply(r, reply)

SpecTurns == Init /\ [][TurnNext]_vars

\* The dispatcher on its own: handleFunctionCall is entered with any canonical
\* tool call, in any state of the canceled and terminated flags, as the main
\* response item of a turn (lines 576-578); the turn then goes on from the
\* await as in run() (lines 579-592).
ToolNames == {"shell", "container.exec", "apply_patch", "unknown_tool"}
ToolArguments == {"json_command", "json_patch", "raw"}

\* The function-call item as it arrives, in one of the wire shapes: the flat
\* shape of the responses endpoint ({call_id, name, arguments}, with or
\* without an id of its own) or the nested shape of the chat endpoint
\* ({id, function: {name, arguments}}).  NoId and "undefined" stand for a
\* missing field, function.present = FALSE for a missing function field.
NoId == <<>>
WireShapes == {"responses", "responses_with_id", "chat"}

WireItem(shape, id, name, arguments) ==
  CASE shape = "chat" ->
         [type |-> "function_call", call_id |-> NoId, id |-> id,
          name |-> "undefined", arguments |-> "undefined",
          function |-> [present |-> TRUE, name |-> name, arguments |-> arguments]]
    [] shape = "responses_with_id" ->
         [type |-> "function_call", call_id |-> id, id |-> <<0, 0>>,
          name |-> name, arguments |-> arguments,
          function |-> [present |-> FALSE, name |-> "undefined",
                        arguments |-> "undefined"]]
    [] OTHER ->
         [type |-> "function_call", call_id |-> id, id |-> NoId,
          name |-> name, arguments |-> arguments,
          function |-> [present |-> FALSE, name |-> "undefined",
                        arguments |-> "undefined"]]

\* Mutant of NormalizeCall: the id field is preferred to call_id.
NormalizeCallPreferId(item) ==
  LET isChatStyle == item.function.present
  IN Call(IF item.id # NoId THEN item.id ELSE item.call_id,
          IF isChatStyle THEN item.function.name ELSE item.name,
          IF isChatStyle THEN item.function.arguments ELSE item.arguments)

\* handleFunctionCall, lines 221-250: name, rawArguments and callId of the
\* item, whatever its shape.
NormalizeCall(item) ==
  LET isChatStyle == item.function.present
  IN Call(IF item.call_id # NoId THEN item.call_id ELSE item.id,
          IF isChatStyle THEN item.function.name ELSE item.name,
          IF isChatStyle THEN item.function.arguments ELSE item.arguments)

CallDispatcher(shape, name, arguments) ==
  /\ UNCHANGED modelUtilsVars
  /\ Len(runs) < MaxCalls
  /\ LET r == Len(runs) + 1
         item == WireItem(shape, <<r, 0>>, name, arguments)
         call == NormalizeCall(item)
         run == [pc |-> "awaitTool", thisGeneration |-> generation,
                 rejected |-> FALSE, input |-> <<item>>, newMessages |-> <<>>,
                 request |-> <<>>, replyRole |-> "assistant",
                 mode |-> "structured", calls |-> <<call>>,
                 toolKind |-> "none", signal |-> 0,
                 items |-> <<CallItem(call, generation)>>,
                 loads |-> <<>>, dispatches |-> <<>>,
                 outcome |-> "pending", exit |-> "none", notified |-> FALSE,
                 content |-> <<>>, session |-> sessionId]
     IN runs' = Append(runs, Dispatch(run, call, FALSE))
  /\ UNCHANGED <<generation, canceled, terminated, hardAborted,
                 execAbortController, nextCtl, aborted, conversationHistory,
                 sessionId, instructions, loading, onLoadingCalls>>

DispatchNext ==
  \/ \E shape \in WireShapes, name \in ToolNames, arguments \in ToolArguments :
       CallDispatcher(shape, name, arguments)
  \/ \E r \in 1..MaxCalls, out \in ExecOutcomes : ToolReturn(r, out)
  \/ Cancel
  \/ Terminate

SpecDispatch == Init /\ [][DispatchNext]_vars


\* One turn with any reply text of up to MaxTextLen segments: what the
\* response parsers make of it.
Segments == {"text", "think", "shell", "emptyshell", "jsoncmd", "patch", "patchq"}

ParseTexts ==
  UNION {[1..n -> Segments] : n \in 1..MaxTextLen}

ParseReplies == {[role |-> "assistant", content |-> c] : c \in ParseTexts}

ParseNext ==
  \/ AllDone /\ RunStart(<<"user">>, MaxParseTurns)
  \/ \E r \in 1..MaxParseTurns, reply \in ParseReplies : BackendReply(r, reply)
  \/ \E r \in 1..MaxParseTurns, out \in ExecOutcomes : ToolReturn(r, out)

SpecParse == Init /\ [][ParseNext]_vars

-----------------------------------------------------------------------------
(* model-utils.ts: the cached list of available models.                    *)
(* A model identifier is a sequence of tokens: "ollama:gemma3:1b" is       *)
(* <<"ollama:", "gemma3:1b">>, " " is a white-space character, <<>> the    *)
(* empty string.  NotAString stands for undefined and null.                *)

NotAString == <<"<undefined>">>

RECOMMENDED_OPENAI_MODELS == << <<"o4-mini">>, <<"o3">> >>
RECOMMENDED_OLLAMA_MODELS == << <<"gemma3:1b">>, <<"llama3:8b">> >>

\* ollama-client.ts
formatOllamaModelName(modelName) == <<"ollama:">> \o modelName
isOllamaModel(modelName) == Len(modelName) >= 1 /\ modelName[1] = "ollama:"

RECOMMENDED_MODELS ==
  RECOMMENDED_OPENAI_MODELS
    \o [i \in 1..Len(RECOMMENDED_OLLAMA_MODELS) |->
          formatOllamaModelName(RECOMMENDED_OLLAMA_MODELS[i])]

\* String.prototype.trim
RECURSIVE trimStart(_)
trimStart(str) ==
  IF str # <<>> /\ Head(str) = " " THEN trimStart(Tail(str)) ELSE str
RECURSIVE trimEnd(_)
trimEnd(str) ==
  IF str # <<>> /\ str[Len(str)] = " "
  THEN trimEnd(SubSeq(str, 1, Len(str) - 1))
  ELSE str
trim(str) == trimEnd(trimStart(str))

\* What the two services may answer with: the OpenAI model list, an empty
\* list or a failure; the names fetchOllamaModels returns (it catches its own
\* errors and returns [], so the fallback of lines 66-68 is never taken).
OpenAIModelList == << <<"o4-mini">>, <<"gpt-4.1">> >>
OpenAIOutcomes == {"list", "empty", "error"}
OllamaModelLists == {<<>>, << <<"mistral">>, <<"gemma3:1b">> >>}

\* Array.prototype.sort on the identifiers that can occur (none occurs twice
\* in a list): they are put in the order of their code units.
ModelOrder ==
  << <<"gpt-4.1">>, <<"o3">>, <<"o4-mini">>, <<"ollama:", "gemma3:1b">>,
     <<"ollama:", "llama3:8b">>, <<"ollama:", "mistral">> >>
sort(models) ==
  LET Listed(m) == Contains(models, m)
  IN SelectSeq(ModelOrder, Listed)

\* fetchModels, lines 35-73, for the given answers of the two services.
fetchModels(openai, ollamaModels, apiKey, ollamaEnabled) ==
  LET fromOpenAI ==
        IF apiKey
        THEN CASE openai = "list" -> OpenAIModelList
               [] openai = "empty" -> <<>>
               [] OTHER -> RECOMMENDED_OPENAI_MODELS
        ELSE RECOMMENDED_OPENAI_MODELS
      fromOllama ==
        IF ollamaEnabled
        THEN [i \in 1..Len(ollamaModels) |-> formatOllamaModelName(ollamaModels[i])]
        ELSE <<>>
  IN sort(fromOpenAI \o fromOllama)

PendingPromise == [state |-> "pending", value |-> <<>>]

\* Mutant of getAvailableModels: the cached promise is not looked at.
getAvailableModelsAlwaysFetch(mp, ps) ==
  [modelsPromise |-> Len(ps) + 1, promises |-> Append(ps, PendingPromise)]

\* getAvailableModels, lines 83-88: the cached promise, set by a call of
\* fetchModels() when there is none.
getAvailableModels(mp, ps) ==
  IF mp = 0
  THEN [modelsPromise |-> Len(ps) + 1, promises |-> Append(ps, PendingPromise)]
  ELSE [modelsPromise |-> mp, promises |-> ps]

\* A call into model-utils.ts.
\*   fn         the function called
\*   model      the argument of isModelSupportedForResponses
\*   found      what modelsPromise was at the call: "null", "pending", "fulfilled"
\*   promise    the promise the caller awaits (0: none)
\*   pc         "await" or "done"
\*   models     the list getAvailableModels resolved to
\*   supported  what isModelSupportedForResponses resolved to
Found ==
  IF modelsPromise = 0 THEN "null" ELSE promises[modelsPromise].state

Caller(fn, model, promise, pc, supported) ==
  [fn |-> fn, model |-> model, found |-> Found, promise |-> promise, pc |-> pc,
   models |-> <<>>, supported |-> supported]

\* preloadModels(), lines 75-81.
PreloadModels ==
  /\ Len(callers) < MaxModelCalls
  /\ LET g == IF modelsPromise = 0
              THEN getAvailableModels(modelsPromise, promises)
              ELSE [modelsPromise |-> modelsPromise, promises |-> promises]
     IN /\ modelsPromise' = g.modelsPromise
        /\ promises' = g.promises
  /\ callers' = Append(callers, Caller("preloadModels", NotAString, 0, "done", FALSE))
  /\ UNCHANGED <<OLLAMA_ENABLED, OPENAI_API_KEY>>
  /\ UNCHANGED loopVars

\* A caller awaits getAvailableModels().
GetAvailableModels ==
  /\ Len(callers) < MaxModelCalls
  /\ LET g == getAvailableModels(modelsPromise, promises)
     IN /\ modelsPromise' = g.modelsPromise
        /\ promises' = g.promises
        /\ callers' = Append(callers, Caller("getAvailableModels", NotAString,
                                             g.modelsPromise, "await", FALSE))
  /\ UNCHANGED <<OLLAMA_ENABLED, OPENAI_API_KEY>>
  /\ UNCHANGED loopVars

\* isModelSupportedForResponses(model), lines 96-117: up to the await.
IsModelSupportedForResponses(model) ==
  /\ Len(callers) < MaxModelCalls
  /\ IF \/ model = NotAString
        \/ trim(model) = <<>>
        \/ Contains(RECOMMENDED_MODELS, model)
     THEN /\ callers' = Append(callers, Caller("isModelSupportedForResponses",
                                               model, 0, "done", TRUE))
          /\ UNCHANGED <<modelsPromise, promises>>
     ELSE IF isOllamaModel(model) /\ ~OLLAMA_ENABLED
     THEN /\ callers' = Append(callers, Caller("isModelSupportedForResponses",
                                               model, 0, "done", FALSE))
          /\ UNCHANGED <<modelsPromise, promises>>
     ELSE LET g == getAvailableModels(modelsPromise, promises)
          IN /\ modelsPromise' = g.modelsPromise
             /\ promises' = g.promises
             /\ callers' = Append(callers, Caller("isModelSupportedForResponses",
                                                  model, g.modelsPromise,
                                                  "await", FALSE))
  /\ UNCHANGED <<OLLAMA_ENABLED, OPENAI_API_KEY>>
  /\ UNCHANGED loopVars

\* A fetchModels() call returns: its promise is fulfilled with the sorted list.
FetchModelsReturns(p, openai, ollamaModels) ==
  /\ p \in 1..Len(promises)
  /\ promises[p].state = "pending"
  /\ promises' = [promises EXCEPT ![p] =
       [state |-> "fulfilled",
        value |-> fetchModels(openai, ollamaModels, OPENAI_API_KEY, OLLAMA_ENABLED)]]
  /\ UNCHANGED <<OLLAMA_ENABLED, OPENAI_API_KEY, modelsPromise, callers>>
  /\ UNCHANGED loopVars

\* The continuation of a caller whose promise is fulfilled: getAvailableModels
\* resolves to the list; isModelSupportedForResponses goes on at line 119.
CallerResumes(c) ==
  /\ c \in 1..Len(callers)
  /\ callers[c].pc = "await"
  /\ promises[callers[c].promise].state = "fulfilled"
  /\ LET models == promises[callers[c].promise].value
     IN callers' = [callers EXCEPT ![c] =
          IF @.fn = "getAvailableModels"
          THEN [@ EXCEPT !.pc = "done", !.models = models]
          ELSE [@ EXCEPT !.pc = "done",
                         !.supported = \/ Len(models) = 0
                                       \/ Contains(models, trim(callers[c].model))]]
  /\ UNCHANGED <<OLLAMA_ENABLED, OPENAI_API_KEY, modelsPromise, promises>>
  /\ UNCHANGED loopVars

\* The timer of lines 113-115 wins the race: the list is taken to be empty.
ModelListTimeout(c) ==
  /\ c \in 1..Len(callers)
  /\ callers[c].pc = "await"
  /\ callers[c].fn = "isModelSupportedForResponses"
  /\ promises[callers[c].promise].state = "pending"
  /\ callers' = [callers EXCEPT ![c] = [@ EXCEPT !.pc = "done", !.supported = TRUE]]
  /\ UNCHANGED <<OLLAMA_ENABLED, OPENAI_API_KEY, modelsPromise, promises>>
  /\ UNCHANGED loopVars

\* The identifiers isModelSupportedForResponses is asked about.
QueriedModels ==
  {NotAString, <<" ">>, <<"o4-mini">>, <<" ", "o3">>, <<"gpt-4.1">>,
   <<"ollama:", "gemma3:1b">>, <<"ollama:", "mistral">>, <<"ollama:", "phi">>}

\* The process in any configuration, before any call into model-utils.ts.
InitModels ==
  /\ generation = 0
  /\ canceled = FALSE
  /\ terminated = FALSE
  /\ hardAborted = FALSE
  /\ execAbortController = 0
  /\ nextCtl = 0
  /\ aborted = {}
  /\ conversationHistory = <<>>
  /\ sessionId = 0
  /\ instructions = FALSE
  /\ runs = <<>>
  /\ loading = FALSE
  /\ onLoadingCalls = 0
  /\ OLLAMA_ENABLED \in BOOLEAN
  /\ OPENAI_API_KEY \in BOOLEAN
  /\ modelsPromise = 0
  /\ promises = <<>>
  /\ callers = <<>>

ModelsNext ==
  \/ PreloadModels
  \/ GetAvailableModels
  \/ \E model \in QueriedModels : IsModelSupportedForResponses(model)
  \/ \E p \in 1..MaxModelCalls, openai \in OpenAIOutcomes,
        ollamaModels \in OllamaModelLists :
       FetchModelsReturns(p, openai, ollamaModels)
  \/ \E c \in 1..MaxModelCalls : CallerResumes(c)
  \/ \E c \in 1..MaxModelCalls : ModelListTimeout(c)

SpecModels == InitModels /\ [][ModelsNext]_vars

\* The deprecated AgentLoop wrapper (ollama-client.ts): its sessionId field is
\* assigned once, in the constructor, from the agent it has just created
\* (whose sessionId is that of Init), and no method assigns it again; run,
\* cancel, terminate and clearConversationHistory are the agent's own methods,
\* bound to the agent.
AgentLoopSessionId == 0

-----------------------------------------------------------------------------
(* Properties *)

Range(s) == {s[i] : i \in 1..Len(s)}
RunIds == 1..Len(runs)
IsSuffix(s, t) == Len(s) <= Len(t) /\ s = SubSeq(t, Len(t) - Len(s) + 1, Len(t))
CountItems(items, Test(_)) == Len(SelectSeq(items, Test))
IsErrorItem(it) == it.type = "message" /\ it.role = "system"
IsCallItem(it) == it.type = "function_call"
IsResultItem(it) == it.type = "function_call_output"

\* The host's effective cancel(): the only step that creates a controller
\* without starting a run.  The host's effective terminate(): the only step
\* that sets the terminated flag.
CancelStep == runs' = runs /\ nextCtl' = nextCtl + 1
TerminateStep == ~terminated /\ terminated'

\* C1: a run whose captured generation is older than the loop's current
\* generation never passes an item to onItem; every item a run emits is
\* emitted while this.generation still equals the run's thisGeneration.
C1_NoStaleEmission ==
  \A r \in RunIds :
    ~runs[r].rejected =>
      \A i \in 1..Len(runs[r].items) :
        runs[r].items[i].gen = runs[r].thisGeneration

\* C2: a run() called after terminate() is rejected (TerminatedError is thrown
\* to the caller).
C2_RunAfterTerminateRejects ==
  \A r \in RunIds : runs[r].rejected => runs[r].outcome = "rejected"

\* C3: when the backend call fails, run() resolves normally, has emitted
\* exactly one error item, and the failure leaves the loop usable: the step
\* that handles it does not set the terminated flag.
C3_BackendFailureIsReported ==
  [][\A r \in 1..Len(runs') :
       runs'[r].exit = "error" =>
         /\ runs'[r].outcome = "resolved"
         /\ runs'[r].pc = "done"
         /\ CountItems(runs'[r].items, IsErrorItem) = 1
         /\ IsErrorItem(runs'[r].items[Len(runs'[r].items)])
         /\ (r <= Len(runs) /\ runs[r].pc = "awaitBackend" => terminated' = terminated)
    ]_vars

C3_Witness ==
  \E r1, r2 \in RunIds :
    /\ r1 < r2
    /\ runs[r1].exit = "error"
    /\ runs[r2].exit = "success"
    /\ runs[r2].items[1].gen > runs[r1].items[Len(runs[r1].items)].gen

\* C4: the retained conversation history never holds more than
\* MAX_HISTORY_LENGTH messages.
C4_HistoryWithinCap == Len(conversationHistory) <= MAX_HISTORY_LENGTH

\* C5: when a turn completes and updateConversationHistory trims the history,
\* every system-role message of the pushed history is kept, in order, and the
\* non-system messages that remain are the most recent ones: only a prefix of
\* the non-system messages, the oldest, is removed.
C5_EvictionKeepsSystemMessages ==
  [][\A r \in RunIds :
       (runs[r].pc # "done" /\ runs'[r].exit = "success") =>
         LET pushed == conversationHistory \o runs[r].newMessages
                       \o <<Msg(runs'[r].replyRole, r, 0)>>
         IN /\ SelectSeq(conversationHistory', IsSystem) = SelectSeq(pushed, IsSystem)
            /\ IsSuffix(SelectSeq(conversationHistory', NotSystem),
                        SelectSeq(pushed, NotSystem))
    ]_vars

C5_Witness ==
  /\ \E i \in 1..Len(conversationHistory) : IsSystem(conversationHistory[i])
  /\ \E r \in RunIds :
       /\ runs[r].exit = "success"
       /\ \E i \in 1..Len(runs[r].newMessages) :
            /\ NotSystem(runs[r].newMessages[i])
            /\ runs[r].newMessages[i] \notin Range(conversationHistory)

\* C6: within a run, every function_call_output item carries the call_id of
\* the function_call item emitted last before it, no call_id gets two results,
\* and every emitted call has exactly one result unless the run is still
\* awaiting it or was canceled.
C6_OneResultPerCall ==
  \A r \in RunIds :
    LET its == runs[r].items
        calls == {i \in 1..Len(its) : IsCallItem(its[i])}
        outs == {i \in 1..Len(its) : IsResultItem(its[i])}
        lastCall(i) == CHOOSE j \in calls : j < i /\ \A k \in calls : k < i => k <= j
        results(j) == {i \in outs : its[i].id = its[j].id}
    IN /\ \A i \in outs :
            /\ \E j \in calls : j < i
            /\ its[lastCall(i)].id = its[i].id
       /\ \A j \in calls :
            \/ Cardinality(results(j)) = 1
            \/ /\ Cardinality(results(j)) = 0
               /\ \/ runs[r].pc = "awaitTool" /\ \A k \in calls : k <= j
                  \/ runs[r].exit = "canceled"

C6_Witness ==
  \E r \in RunIds :
    /\ runs[r].exit = "success"
    /\ CountItems(runs[r].items, IsCallItem) = 2
    /\ CountItems(runs[r].items, IsResultItem) = 2

\* C7 as claimed: every run() invocation that has ended has called
\* onLoading(true) first and onLoading(false) last.
C7_EveryRunTogglesLoading ==
  \A r \in RunIds :
    runs[r].pc = "done" =>
      /\ runs[r].loads # <<>>
      /\ Head(runs[r].loads) = TRUE
      /\ runs[r].loads[Len(runs[r].loads)] = FALSE

\* C7 as amended: every run() invocation accepted by a loop that is not
\* terminated calls onLoading(true) first, and on each of its exit paths
\* (success, backend error, cancellation seen at a checkpoint) its last
\* onLoading call is onLoading(false); it calls onLoading(true) once.
C7_AcceptedRunTogglesLoading ==
  \A r \in RunIds :
    ~runs[r].rejected =>
      /\ runs[r].loads # <<>>
      /\ Head(runs[r].loads) = TRUE
      /\ \A i \in 2..Len(runs[r].loads) : runs[r].loads[i] = FALSE
      /\ runs[r].pc = "done" =>
           /\ runs[r].exit \in {"success", "error", "canceled"}
           /\ Len(runs[r].loads) >= 2
           /\ runs[r].loads[Len(runs[r].loads)] = FALSE

C7_Witness ==
  \E r1, r2 \in RunIds :
    /\ runs[r1].exit = "canceled"
    /\ CountItems(runs[r1].items, IsCallItem) = 1
    /\ runs[r1].loads = <<TRUE, FALSE, FALSE>>
    /\ runs[r2].exit = "success"
    /\ runs[r2].loads = <<TRUE, FALSE>>

\* C8: an effective cancel() or terminate() aborts the signal held by every
\* tool execution that is in flight, whichever run dispatched it.
C8_CancelAbortsEveryToolInFlight ==
  [][(CancelStep \/ TerminateStep) =>
       \A r \in RunIds :
         (runs[r].pc = "awaitTool" /\ runs[r].toolKind = "exec") =>
           runs[r].signal \in aborted'
    ]_vars

\* C9: an effective cancel() aborts the current controller and replaces it by
\* one never used before whose signal is not aborted; an aborted signal stays
\* aborted; and no tool call is ever handed a signal that is already aborted.
C9_SignalSourceReplaced ==
  [][/\ aborted \subseteq aborted'
     /\ CancelStep =>
          /\ execAbortController' \notin aborted'
          /\ execAbortController' \notin 1..nextCtl
          /\ execAbortController # 0 => execAbortController \in aborted'
     /\ \A r \in 1..Len(runs') :
          \A i \in 1..Len(runs'[r].dispatches) :
            ~runs'[r].dispatches[i].preAborted
    ]_vars

C9_Witness ==
  \E r1, r2 \in RunIds :
    /\ runs[r1].dispatches # <<>>
    /\ runs[r2].dispatches # <<>>
    /\ runs[r1].dispatches[1].signal \in aborted
    /\ runs[r2].dispatches[1].signal \notin aborted
    /\ runs[r2].dispatches[1].signal > runs[r1].dispatches[1].signal
    /\ ~terminated

\* C10: terminate() on a loop that is not terminated has the effect of
\* cancel(): canceled becomes true, the generation grows by one and
\* onLoading(false) is called.
C10_TerminateCancels ==
  [][TerminateStep =>
       /\ canceled'
       /\ generation' = generation + 1
       /\ onLoadingCalls' = onLoadingCalls + 1
       /\ loading' = FALSE
    ]_vars

\* C11: terminated is absorbing: no step of run(), cancel(), terminate() or
\* clearConversationHistory() resets the terminated flag.
C11_TerminatedIsAbsorbing == [][terminated => terminated']_vars

C11_Witness ==
  /\ terminated
  /\ sessionId = 1
  /\ generation = 0
  /\ \E r1, r2 \in RunIds :
       /\ ~runs[r1].rejected
       /\ runs[r1].pc = "done"
       /\ runs[r2].rejected

\* C12: terminate() on a terminated loop changes no field of the loop
\* (terminated, canceled, generation, abort controllers, loading) and calls
\* onLoading not at all; the history is not touched by terminate().
C12_TerminateIdempotent ==
  terminated => terminate(LoopState) = LoopState

C12_Witness ==
  /\ terminated
  /\ loading
  /\ \E r \in RunIds : runs[r].pc = "awaitBackend"

\* C13 as claimed: on a loop that is not terminated, cancel() twice in a row
\* leaves the canceled flag, the generation token and the loading state as
\* cancel() once does.
C13_CancelIdempotent ==
  ~terminated =>
    LET once == cancel(LoopState)
        twice == cancel(once)
    IN /\ twice.canceled = once.canceled
       /\ twice.generation = once.generation
       /\ twice.loading = once.loading

\* C13 as amended: on a loop that is not terminated, cancel() twice in a row
\* leaves the canceled flag and the loading state as cancel() once does; the
\* second call increments the generation token once more, calls
\* onLoading(false) once more and replaces the abort controller once more.
C13_CancelTwiceSameFlags ==
  ~terminated =>
    LET once == cancel(LoopState)
        twice == cancel(once)
    IN /\ twice.canceled = once.canceled
       /\ twice.canceled = TRUE
       /\ twice.loading = once.loading
       /\ twice.loading = FALSE
       /\ twice.terminated = once.terminated
       /\ twice.generation = once.generation + 1
       /\ twice.onLoadingCalls = once.onLoadingCalls + 1
       /\ twice.execAbortController # once.execAbortController
       /\ once.execAbortController \in twice.aborted

C13_Witness ==
  /\ ~terminated
  /\ canceled
  /\ Len(runs) = 1
  /\ runs[1].pc = "awaitBackend"
  /\ runs[1].thisGeneration = 1
  /\ generation = 3
  /\ nextCtl = 3
  /\ aborted = {1, 2}

\* C14: cancel() on a terminated loop leaves canceled, generation, the abort
\* controllers and the loading state unchanged and does not call onLoading;
\* the history is not touched by cancel().
C14_CancelAfterTerminateIsNoOp ==
  terminated => cancel(LoopState) = LoopState

C14_Witness ==
  /\ terminated
  /\ ~canceled
  /\ execAbortController # 0
  /\ \E r \in RunIds : runs[r].pc = "awaitTool" /\ runs[r].toolKind = "exec"

\* C15: clearConversationHistory() (the only step that changes the session
\* id) empties the history, sets the generation token to 0, and leaves the
\* terminated flag, the canceled flag and the abort controllers unchanged.
C15_ClearResetsSessionOnly ==
  [][sessionId' # sessionId =>
       /\ conversationHistory' = <<>>
       /\ generation' = 0
       /\ UNCHANGED <<terminated, canceled, hardAborted, execAbortController,
                      nextCtl, aborted, runs, loading, onLoadingCalls>>
    ]_vars

C15_Witness ==
  /\ sessionId = 1
  /\ generation = 0
  /\ conversationHistory = <<>>
  /\ canceled
  /\ execAbortController # 0
  /\ \E r \in RunIds : runs[r].exit = "success"

\* C16: the generation token never decreases, and no two run() invocations
\* accepted by the loop capture the same thisGeneration.
C16_GenerationMonotonic ==
  [][/\ generation' >= generation
     /\ \A r1, r2 \in 1..Len(runs') :
          (r1 # r2 /\ ~runs'[r1].rejected /\ ~runs'[r2].rejected) =>
            runs'[r1].thisGeneration # runs'[r2].thisGeneration
    ]_vars

ItemTypes(items) == [i \in 1..Len(items) |-> items[i].type]
EchoCount(run) == Len(SelectSeq(run.input, IsUserEcho))
AfterEchoes(run) == SubSeq(run.items, EchoCount(run) + 1, Len(run.items))

\* C17: when the backend answers a run while the canceled flag is set (cancel()
\* was called while the run awaited the backend and no run() was started
\* since), the run emits no item, dispatches no tool, leaves the history
\* alone and ends with onLoading(false).
C17_CancelWhileAwaitingBackend ==
  [][\A r \in RunIds :
       (/\ runs[r].pc = "awaitBackend"
        /\ canceled
        /\ runs'[r].pc # "awaitBackend"
        /\ runs'[r].exit # "error") =>
         /\ runs'[r].items = runs[r].items
         /\ runs'[r].dispatches = runs[r].dispatches
         /\ conversationHistory' = conversationHistory
         /\ runs'[r].pc = "done"
         /\ runs'[r].exit = "canceled"
         /\ ~runs'[r].notified
         /\ runs'[r].loads[Len(runs'[r].loads)] = FALSE
         /\ loading' = FALSE
    ]_vars

C17_Witness ==
  /\ canceled
  /\ ~hardAborted
  /\ ~loading
  /\ runs # <<>>
  /\ LET run == runs[Len(runs)]
     IN /\ run.exit = "canceled"
        /\ run.replyRole = "none"
        /\ Len(run.items) = EchoCount(run)
        /\ run.dispatches = <<>>

\* C18: a run that was not canceled and whose reply is text with one fenced
\* shell command that ran emits, after its user echoes, exactly a
\* function_call item and its function_call_output item.
C18_ShellFenceSequence ==
  \A r \in RunIds :
    (/\ runs[r].exit = "success"
     /\ runs[r].mode = "free"
     /\ Len(runs[r].dispatches) = 1
     /\ CountItems(runs[r].items, IsCallItem) = 1
     /\ \A i \in 1..Len(runs[r].items) :
          IsResultItem(runs[r].items[i]) => runs[r].items[i].out = "ok") =>
      ItemTypes(AfterEchoes(runs[r])) = <<"function_call", "function_call_output">>

IsSingleUserInput(run) ==
  /\ Len(run.input) = 1
  /\ run.input[1].type = "message"
  /\ run.input[1].role = "user"
  /\ ~run.input[1].empty

PlainTurnItems(run) ==
  /\ Len(run.items) = 2
  /\ IsUserEcho(run.items[1])
  /\ run.items[2].type = "message"
  /\ run.items[2].role = "assistant"

C20_EvictionKeepsMostRecent ==
  [][\A r \in RunIds :
       (runs[r].pc = "awaitBackend" /\ runs'[r].exit = "success") =>
         LET pushed == conversationHistory \o runs[r].newMessages
                       \o <<Msg(runs'[r].replyRole, r, 0)>>
             sys == SelectSeq(pushed, IsSystem)
             non == SelectSeq(pushed, NotSystem)
             s == Len(sys)
         IN (Len(pushed) > MAX_HISTORY_LENGTH /\ s < MAX_HISTORY_LENGTH) =>
              /\ conversationHistory' =
                   sys \o SubSeq(non, Len(non) - (MAX_HISTORY_LENGTH - s) + 1, Len(non))
              /\ Len(conversationHistory') = MAX_HISTORY_LENGTH
    ]_vars

\* 1 system message and 25 non-system messages were pushed by the fifth turn:
\* the system message and the 19 newest non-system messages are left.
C20_Witness ==
  /\ Len(runs) = 5
  /\ runs[5].exit = "success"
  /\ Len(runs[5].newMessages) = 5
  /\ Len(runs[5].request) - (IF instructions THEN 1 ELSE 0) = 25
  /\ Len(conversationHistory) = 20
  /\ Len(SelectSeq(conversationHistory, IsSystem)) = 1
  /\ conversationHistory[1] = Msg("system", 1, 1)
  /\ conversationHistory[2] = Msg("assistant", 2, 0)
  /\ conversationHistory[20] = Msg("assistant", 5, 0)

\* An echo of one of run r's input items (the items handleExecCommand adds
\* carry no input position).
IsInputEcho(it, r) == IsUserEcho(it) /\ it.id[1] = r
IsReasoningItem(it) == it.type = "reasoning"

\* C21: the items of a run reach onItem in production order: the user echoes
\* come first and are all emitted before the backend request, a reasoning
\* item comes right after them and before the main content or tool-call item,
\* and every tool result follows its own tool call and every tool call
\* emitted before that one.
C21_ItemsInProductionOrder ==
  \A r \in RunIds :
    ~runs[r].rejected =>
      LET its == runs[r].items
          n == EchoCount(runs[r])
      IN /\ Len(its) >= n
         /\ \A i \in 1..Len(its) : IsInputEcho(its[i], r) <=> i <= n
         /\ runs[r].pc = "awaitBackend" => Len(its) = n
         /\ \A i \in 1..Len(its) :
              IsReasoningItem(its[i]) =>
                /\ i = n + 1
                /\ Len(its) > i
                /\ its[i + 1].type \in {"message", "function_call"}
         /\ \A i \in 1..Len(its) :
              IsResultItem(its[i]) =>
                /\ \E j \in 1..(i - 1) : IsCallItem(its[j]) /\ its[j].id = its[i].id
                /\ \A j \in 1..Len(its) :
                     (IsCallItem(its[j]) /\ its[j].id[2] <= its[i].id[2]) => j < i

C21_Witness ==
  \E r1, r2 \in RunIds :
    /\ runs[r1].exit = "success"
    /\ ItemTypes(AfterEchoes(runs[r1])) =
         <<"message", "function_call", "function_call_output",
           "function_call", "function_call_output">>
    /\ runs[r2].exit = "success"
    /\ ItemTypes(AfterEchoes(runs[r2])) = <<"reasoning", "message">>

\* C22: with instructions configured, the request of every run has the
\* instructions message first and only once, and the instructions message is
\* never in the stored history.
C22_InstructionsFirstNeverStored ==
  /\ InstructionsMsg \notin Range(conversationHistory)
  /\ \A r \in RunIds :
       ~runs[r].rejected =>
         /\ instructions =>
              /\ runs[r].request # <<>>
              /\ runs[r].request[1] = InstructionsMsg
              /\ \A i \in 2..Len(runs[r].request) : runs[r].request[i] # InstructionsMsg
         /\ ~instructions => InstructionsMsg \notin Range(runs[r].request)

C22_Witness ==
  /\ instructions
  /\ Len(runs) = 4
  /\ runs[4].exit = "success"
  /\ runs[4].request[1] = InstructionsMsg
  /\ runs[4].request[2] = Msg("system", 1, 1)
  /\ Len(runs[4].request) > 20
  /\ conversationHistory[1] = Msg("system", 1, 1)

\* C23: when the canceled flag or the master abort is set while a run awaits
\* handleFunctionCall, the run, once the await resumes, emits no item,
\* dispatches no tool, leaves the history alone and does not call
\* onLastResponseId.
C23_RecheckAfterToolAwait ==
  [][\A r \in RunIds :
       (/\ runs[r].pc = "awaitTool"
        /\ canceled \/ hardAborted
        /\ runs'[r] # runs[r]) =>
         /\ runs'[r].items = runs[r].items
         /\ runs'[r].dispatches = runs[r].dispatches
         /\ conversationHistory' = conversationHistory
         /\ ~runs'[r].notified
    ]_vars

\* C24: when the checkpoint before a free-text tool call that is not the
\* first of its response sees the canceled flag or the master abort, the run
\* ends there: no further function_call item is emitted, nothing is
\* dispatched, the history is not appended to and onLastResponseId is not
\* called.
C24_CheckpointStopsRemainingCalls ==
  [][\A r \in RunIds :
       (/\ runs[r].pc = "awaitTool"
        /\ runs[r].mode = "free"
        /\ Len(runs[r].calls) >= 2
        /\ canceled \/ hardAborted
        /\ runs'[r] # runs[r]) =>
         /\ CountItems(runs'[r].items, IsCallItem) = CountItems(runs[r].items, IsCallItem)
         /\ runs'[r].dispatches = runs[r].dispatches
         /\ conversationHistory' = conversationHistory
         /\ ~runs'[r].notified
         /\ runs'[r].pc = "done"
         /\ runs'[r].outcome = "resolved"
    ]_vars

C24_Witness ==
  \E r \in RunIds :
    /\ runs[r].pc = "done"
    /\ runs[r].mode = "free"
    /\ Len(runs[r].calls) = 1
    /\ Len(runs[r].dispatches) = 1
    /\ CountItems(runs[r].items, IsResultItem) = 1
    /\ ~runs[r].notified
    /\ conversationHistory = <<>>
    /\ canceled

\* C25: a run during which cancel() was called dispatches no tool afterwards.
\* Every controller is created by a run() or by an effective cancel(), as
\* every increment of the generation is, so that, as long as the history was
\* never cleared, the controller a run created has the number of the run's
\* thisGeneration; a controller of that number or a later one is aborted only
\* by a cancel() or terminate() called after the run started.
C25_NoDispatchAfterCancel ==
  [][\A r \in RunIds :
       (sessionId' = 0 /\ Len(runs'[r].dispatches) > Len(runs[r].dispatches)) =>
         ~\E c \in aborted : c >= runs[r].thisGeneration
    ]_vars

\* C26: every run() accepted by a loop that is not terminated and every
\* effective cancel() increments the generation token by exactly one; the
\* run captures the incremented value.
C26_GenerationStepsByOne ==
  [][/\ CancelStep => generation' = generation + 1
     /\ (Len(runs') > Len(runs) /\ ~runs'[Len(runs')].rejected) =>
          /\ generation' = generation + 1
          /\ runs'[Len(runs')].thisGeneration = generation'
    ]_vars

C26_Witness ==
  /\ sessionId = 0
  /\ generation = 3
  /\ Len(runs) = 2
  /\ runs[1].thisGeneration = 1
  /\ runs[2].thisGeneration = 3
  /\ ~runs[2].rejected
  /\ ~canceled

\* C27: handleFunctionCall entered while the canceled flag is set resolves
\* to the empty list, whatever the name and the arguments of the call: the
\* arguments are not parsed (no "invalid arguments" result), nothing is
\* handed to handleExecCommand and no item is produced.
C27_CanceledDispatcherReturnsNothing ==
  [][/\ (Len(runs') > Len(runs) /\ canceled) =>
          /\ runs'[Len(runs')].toolKind = "empty"
          /\ runs'[Len(runs')].dispatches = <<>>
          /\ runs'[Len(runs')].signal = 0
     /\ \A r \in RunIds :
          (runs[r].toolKind = "empty" /\ runs'[r] # runs[r]) =>
            /\ runs'[r].items = runs[r].items
            /\ runs'[r].dispatches = <<>>
    ]_vars

C27_Witness ==
  /\ canceled
  /\ Len(runs) = 2
  /\ runs[1].pc = "done"
  /\ runs[1].calls = <<>>
  /\ runs[1].items = <<CallItem(Call(<<1, 0>>, "shell", "json_command"), 1)>>
  /\ runs[2].pc = "awaitTool"
  /\ runs[2].toolKind = "empty"
  /\ runs[2].calls[1].arguments = "raw"

\* C28: a call of the tool apply_patch with the arguments the patch-fence
\* matcher produces ({"patch": ...}) is handed to a collaborator: unless the
\* loop is canceled, it resolves neither to "invalid arguments" nor to "no
\* function found".
C28_PatchCallReachesCollaborator ==
  \A r \in RunIds :
    (/\ runs[r].pc = "awaitTool"
     /\ Head(runs[r].calls).name = "apply_patch"
     /\ Head(runs[r].calls).arguments = "json_patch") =>
      runs[r].toolKind \notin {"invalid", "nofunc"}

\* C29: a call with valid arguments whose name is not a known tool executes
\* nothing and resolves to one function_call_output "no function found" with
\* the id of the call; the turn then completes: the history is appended to,
\* onLastResponseId is called and no error item is emitted.
C29_UnknownToolNoFunctionFound ==
  [][\A r \in RunIds :
       (/\ runs[r].pc = "awaitTool"
        /\ runs[r].toolKind # "empty"
        /\ parseToolCallArguments(Head(runs[r].calls).arguments)
        /\ Head(runs[r].calls).name \notin {"shell", "container.exec", "apply_patch"}
        /\ runs'[r] # runs[r]) =>
         LET new == SubSeq(runs'[r].items, Len(runs[r].items) + 1, Len(runs'[r].items))
         IN /\ Len(new) = 1
            /\ IsResultItem(new[1])
            /\ new[1].out = "no function found"
            /\ new[1].id = Head(runs[r].calls).id
            /\ runs'[r].dispatches = <<>>
            /\ runs'[r].pc = "done"
            /\ runs'[r].exit = "success"
            /\ runs'[r].outcome = "resolved"
            /\ runs'[r].notified
            /\ Len(conversationHistory') = Len(conversationHistory) + 1
            /\ CountItems(runs'[r].items, IsErrorItem) = 0
    ]_vars

C29_Witness ==
  \E r \in RunIds :
    /\ runs[r].exit = "success"
    /\ runs[r].dispatches = <<>>
    /\ Len(runs[r].items) = 2
    /\ runs[r].items[1].name = "unknown_tool"
    /\ runs[r].items[1].arguments = "json_command"
    /\ runs[r].items[2].out = "no function found"
    /\ conversationHistory # <<>>

\* C30: a call whose arguments cannot be parsed executes nothing and resolves
\* to one function_call_output "invalid arguments: ..." with the id of the
\* call; the run is not failed and no error item is emitted.
C30_InvalidArgumentsResult ==
  [][\A r \in RunIds :
       (/\ runs[r].pc = "awaitTool"
        /\ runs[r].toolKind # "empty"
        /\ ~parseToolCallArguments(Head(runs[r].calls).arguments)
        /\ runs'[r] # runs[r]) =>
         LET new == SubSeq(runs'[r].items, Len(runs[r].items) + 1, Len(runs'[r].items))
         IN /\ Len(new) >= 1
            /\ IsResultItem(new[1])
            /\ new[1].out = "invalid arguments"
            /\ new[1].id = Head(runs[r].calls).id
            /\ CountItems(new, IsResultItem) = 1
            /\ runs'[r].dispatches = runs[r].dispatches
            /\ runs[r].signal = 0
            /\ runs'[r].exit # "error"
            /\ runs'[r].outcome # "rejected"
            /\ CountItems(runs'[r].items, IsErrorItem) = 0
    ]_vars

C30_Witness ==
  \E r \in RunIds :
    /\ runs[r].exit = "success"
    /\ runs[r].mode = "structured"
    /\ runs[r].notified
    /\ runs[r].dispatches = <<>>
    /\ runs[r].items[Len(runs[r].items)].out = "invalid arguments"
    /\ runs[r].items[Len(runs[r].items) - 1].name = "ls"
    /\ Len(conversationHistory) >= 3


\* The tool calls a response text embeds, in the order of the text: the name
\* of each non-blank shell fence and of each apply_patch fence.
IsFence(tok) == IsShellFence(tok) \/ IsPatchFence(tok)
FenceNames(text) ==
  LET fences == SelectSeq(text, IsFence)
  IN [k \in 1..Len(fences) |->
        IF IsShellFence(fences[k]) THEN "shell" ELSE "apply_patch"]
CleanedContent(run) == extractThinkingContent(run.content).cleanedContent

\* C31: the tool calls embedded in one response text are emitted and
\* dispatched in the order in which they appear in the text, each one's
\* result arriving before the next call is emitted.
C31_EmbeddedCallsInTextOrder ==
  \A r \in RunIds :
    runs[r].mode = "free" =>
      LET emitted == SelectSeq(runs[r].items, IsCallItem)
          expected == FenceNames(CleanedContent(runs[r]))
      IN /\ Len(emitted) <= Len(expected)
         /\ \A k \in 1..Len(emitted) : emitted[k].name = expected[k]
         /\ \A i, j \in 1..Len(runs[r].items) :
              (i < j /\ IsCallItem(runs[r].items[i]) /\ IsCallItem(runs[r].items[j])) =>
                \E m \in (i + 1)..(j - 1) :
                  /\ IsResultItem(runs[r].items[m])
                  /\ runs[r].items[m].id = runs[r].items[i].id

\* C32: a response with a structured tool call (the json "cmd" pattern) is
\* converted to one function_call item and the free-text scan is skipped:
\* whatever fences the text also holds, exactly one call is dispatched.
C32_StructuredCallOnly ==
  \A r \in RunIds :
    (runs[r].replyRole # "none" /\ SelectSeq(CleanedContent(runs[r]), IsJsonCmd) # <<>>) =>
      /\ runs[r].mode = "structured"
      /\ CountItems(runs[r].items, IsCallItem) = 1
      /\ \A i \in 1..Len(runs[r].items) :
           (IsCallItem(runs[r].items[i]) \/ IsResultItem(runs[r].items[i])) =>
             runs[r].items[i].id = <<r, 0>>
      /\ Len(runs[r].calls) <= 1
      /\ CountItems(runs[r].items, IsResultItem)
           = (IF runs[r].pc = "done" THEN 1 ELSE 0)

C32_Witness ==
  \E r \in RunIds :
    /\ runs[r].content = <<"shell", "jsoncmd", "patchq">>
    /\ runs[r].exit = "success"
    /\ runs[r].mode = "structured"
    /\ CountItems(runs[r].items, IsCallItem) = 1
    /\ runs[r].dispatches = <<>>

\* C33: the normalizer gives every wire shape of a function call the same
\* canonical fields: the responses shape {call_id, name, arguments} and the
\* chat shape {id, function: {name, arguments}} with the same values yield the
\* same name, the same raw arguments and the same correlation id, and call_id
\* wins over id when an item carries both.
C33_NormalizedShapesAgree ==
  \A r \in RunIds :
    \E shape \in WireShapes, name \in ToolNames, arguments \in ToolArguments :
      /\ runs[r].input = <<WireItem(shape, <<r, 0>>, name, arguments)>>
      /\ IsCallItem(runs[r].items[1])
      /\ runs[r].items[1].id = <<r, 0>>
      /\ runs[r].items[1].name = name
      /\ runs[r].items[1].arguments = arguments
      /\ \A s2 \in WireShapes :
           NormalizeCall(WireItem(s2, <<r, 0>>, name, arguments))
             = Call(<<r, 0>>, name, arguments)
      /\ \A i \in 1..Len(runs[r].items) :
           IsResultItem(runs[r].items[i]) => runs[r].items[i].id = <<r, 0>>
      /\ \A i \in 1..Len(runs[r].dispatches) : runs[r].dispatches[i].id = <<r, 0>>

C33_Witness ==
  /\ Len(runs) = 2
  /\ runs[1].input[1].function.present
  /\ runs[1].input[1].call_id = NoId
  /\ ~runs[2].input[1].function.present
  /\ runs[2].input[1].id = <<0, 0>>
  /\ runs[2].input[1].call_id = <<2, 0>>
  /\ runs[1].items[1].name = "shell"
  /\ runs[2].items[1].name = "shell"
  /\ runs[1].items[1].arguments = runs[2].items[1].arguments
  /\ runs[1].pc = "done"
  /\ runs[2].pc = "done"
  /\ \E i \in 1..Len(runs[2].items) : IsResultItem(runs[2].items[i])


C37_LoadingWhileSomeRunInProgress ==
  (/\ \E r \in RunIds : runs[r].pc # "done"
   /\ ~canceled
   /\ ~terminated
   /\ ~hardAborted
   /\ aborted = {}) => loading

\* C38: clearConversationHistory() separates sessions: the history only holds
\* messages of run() calls started in the current session; a run that was in
\* flight when the history was cleared adds nothing to the new history.
C38_HistoryOfCurrentSessionOnly ==
  \A i \in 1..Len(conversationHistory) :
    LET src == conversationHistory[i].src
    IN src \in RunIds /\ runs[src].session = sessionId

\* C39: run() on a terminated loop only reports the failure: no request is
\* sent to the backend, no user item is echoed, no tool is dispatched, and
\* generation, the canceled flag, execAbortController and the history stay as
\* they were.
C39_RunOnTerminatedLoopOnlyReports ==
  [][(terminated /\ Len(runs') = Len(runs) + 1) =>
       LET run == runs'[Len(runs')]
       IN /\ run.rejected
          /\ run.request = <<>>
          /\ run.dispatches = <<>>
          /\ run.pc = "done"
          /\ CountItems(run.items, IsUserEcho) = 0
          /\ CountItems(run.items, IsCallItem) = 0
          /\ CountItems(run.items, IsErrorItem) = 1
          /\ UNCHANGED <<generation, canceled, execAbortController, nextCtl,
                         aborted, conversationHistory, terminated, hardAborted,
                         sessionId>>
          /\ \A r \in RunIds : runs'[r] = runs[r]
    ]_vars

C39_Witness ==
  /\ terminated
  /\ Len(runs) = 2
  /\ runs[1].exit = "success"
  /\ runs[2].rejected
  /\ runs[2].exit = "terminated"
  /\ generation = 1
  /\ execAbortController = 1
  /\ ~canceled
  /\ Len(conversationHistory) = 3

\* C40: the deprecated AgentLoop wrapper reports the session of the agent it
\* delegates to: after any calls made through it, its sessionId is the
\* agent's sessionId.
C40_WrapperSessionIdFollowsAgent ==
  AgentLoopSessionId = sessionId


\* C35: the model list is requested once per process: whatever the
\* interleaving of preloadModels() and getAvailableModels() calls, also while
\* the first fetch is pending, fetchModels is started at most once (exactly
\* once when the list has been asked for) and every caller receives the one
\* cached result.
C35_ModelListFetchedOnce ==
  /\ Len(promises) <= 1
  /\ modelsPromise = Len(promises)
  /\ \A c \in 1..Len(callers) :
       /\ callers[c].fn \in {"preloadModels", "getAvailableModels"} =>
            Len(promises) = 1
       /\ callers[c].promise \in {0, 1}
       /\ callers[c].fn = "getAvailableModels" =>
            /\ callers[c].promise = 1
            /\ callers[c].pc = "done" =>
                 /\ promises[1].state = "fulfilled"
                 /\ callers[c].models = promises[1].value

C35_Witness ==
  /\ Len(callers) = 3
  /\ callers[1].fn = "preloadModels"
  /\ callers[1].found = "null"
  /\ callers[2].fn = "getAvailableModels"
  /\ callers[2].found = "pending"
  /\ callers[3].fn = "getAvailableModels"
  /\ callers[3].found = "fulfilled"
  /\ callers[2].pc = "done"
  /\ callers[3].pc = "done"
  /\ callers[2].models = callers[3].models
  /\ Len(callers[2].models) = 4
  /\ Len(promises) = 1

\* C36: isModelSupportedForResponses answers false for every identifier with
\* the ollama: prefix when the Ollama integration is disabled, and true for
\* every recommended OpenAI model whatever the Ollama setting.
C36_OllamaModelsNeedOllamaEnabled ==
  \A c \in 1..Len(callers) :
    (callers[c].fn = "isModelSupportedForResponses" /\ callers[c].pc = "done") =>
      /\ (isOllamaModel(callers[c].model) /\ ~OLLAMA_ENABLED) => ~callers[c].supported
      /\ Contains(RECOMMENDED_OPENAI_MODELS, callers[c].model) => callers[c].supported

=============================================================================
